---- MODULE Spec2Model ----
(***************************************************************************)
(* Cart-to-order reconciliation and revenue accounting of the e-commerce   *)
(* backend (src/server.js): the user's cartData, the Order collection and  *)
(* the per-day Revenue buckets, as written by the cart, checkout and admin *)
(* order handlers.                                                         *)
(***************************************************************************)
EXTENDS Integers, Sequences, FiniteSets, TLC

VARIABLES cart, orders, revenue, catalog, nextId, today, steps, lastOp, inflight,
          cartItems

vars == <<cart, orders, revenue, catalog, nextId, today, steps, lastOp, inflight, cartItems>>

(***************************************************************************)
(* Bounds of the exploration.                                              *)
(***************************************************************************)
\* number of requests in one explored history
MaxSteps == 3
\* number of calendar days the clock may reach
MaxDay == 2

Users == {"u1", "u2"}
ProductIds == {1, 2}
\* numeric ids no product carries
UnknownProducts == {9}
Sizes == {"M", "L"}
\* the placeholder the handler substitutes for a missing size, and a size no product has
BadSizes == {"default", "XS"}
Prices == {100, 150}
\* _ids no order carries
UnknownOrders == {0}
\* what may go wrong downstream of a request: nothing, the Revenue collection, the mailer
Faults == {"none", "revenue", "mail"}

OrderStatuses == {"pending", "processing", "shipped", "delivered", "cancelled"}
PaymentMethods == {"cash_on_delivery", "bank_transfer", "stripe", "paypal"}

EmptyMap == [x \in {} |-> <<>>]

(***************************************************************************)
(* Generic helpers for JS objects and arrays.                              *)
(***************************************************************************)
MapPut(f, k, v) == [x \in (DOMAIN f) \cup {k} |-> IF x = k THEN v ELSE f[x]]

MapDel(f, k) == [x \in (DOMAIN f) \ {k} |-> f[x]]

\* array.splice(i, 1)
RemoveAt(s, i) == SubSeq(s, 1, i - 1) \o SubSeq(s, i + 1, Len(s))

ReplaceAt(s, i, v) == [s EXCEPT ![i] = v]

Abs(n) == IF n < 0 THEN -n ELSE n

\* Array.prototype.findIndex over the matching positions: the first one, 0 when none
FirstIndex(matching) ==
  IF matching = {} THEN 0 ELSE CHOOSE i \in matching : \A j \in matching : i <= j

(***************************************************************************)
(* cartData: product key -> (size -> quantity).  The size map keeps the    *)
(* insertion order of its keys, as a JS object does.                       *)
(***************************************************************************)
SizeIndex(sizes, size) == FirstIndex({i \in 1..Len(sizes) : sizes[i].size = size})

\* user.cartData[itemId]?.[size] || 0
CartQty(cd, pid, size) ==
  IF pid \in DOMAIN cd /\ SizeIndex(cd[pid], size) > 0
  THEN cd[pid][SizeIndex(cd[pid], size)].qty
  ELSE 0

\* obj[size] = q
SizePut(sizes, size, q) ==
  IF SizeIndex(sizes, size) > 0
  THEN ReplaceAt(sizes, SizeIndex(sizes, size), [size |-> size, qty |-> q])
  ELSE Append(sizes, [size |-> size, qty |-> q])

\* delete obj[size]
SizeDel(sizes, size) ==
  IF SizeIndex(sizes, size) > 0 THEN RemoveAt(sizes, SizeIndex(sizes, size)) ELSE sizes

\* variant: a line is deleted only once its quantity is negative
AddToCartData_KeepsZero(cd, pid, size, quantity) ==
  LET cd1 == IF pid \in DOMAIN cd THEN cd ELSE MapPut(cd, pid, <<>>)
      s1 == IF CartQty(cd1, pid, size) = 0 THEN SizePut(cd1[pid], size, 0) ELSE cd1[pid]
      new == CartQty(MapPut(cd1, pid, s1), pid, size) + quantity
      s2 == SizePut(s1, size, new)
      s3 == IF new < 0 THEN SizeDel(s2, size) ELSE s2
  IN IF Len(s3) = 0 THEN MapDel(cd1, pid) ELSE MapPut(cd1, pid, s3)

\* the cartData write of POST /addtocart
AddToCartData(cd, pid, size, quantity) ==
  LET cd1 == IF pid \in DOMAIN cd THEN cd ELSE MapPut(cd, pid, <<>>)
      s1 == IF CartQty(cd1, pid, size) = 0 THEN SizePut(cd1[pid], size, 0) ELSE cd1[pid]
      new == CartQty(MapPut(cd1, pid, s1), pid, size) + quantity
      s2 == SizePut(s1, size, new)
      s3 == IF new <= 0 THEN SizeDel(s2, size) ELSE s2
  IN IF Len(s3) = 0 THEN MapDel(cd1, pid) ELSE MapPut(cd1, pid, s3)

\* the cartData write of POST /updatecartquantity (newQuantity >= 0)
UpdateCartData(cd, pid, size, newQuantity) ==
  LET cd1 == IF pid \in DOMAIN cd THEN cd ELSE MapPut(cd, pid, <<>>)
      s1 == SizePut(cd1[pid], size, newQuantity)
  IN IF newQuantity <= 0
     THEN LET s2 == SizeDel(s1, size)
          IN IF Len(s2) = 0 THEN MapDel(cd1, pid) ELSE MapPut(cd1, pid, s2)
     ELSE MapPut(cd1, pid, s1)

\* the cleaning pass of GET /getcartdata
CleanSizes(sizes) == SelectSeq(sizes, LAMBDA e : e.qty > 0)

CleanCartData(cd) ==
  LET keep == {p \in DOMAIN cd : Len(CleanSizes(cd[p])) > 0}
  IN [p \in keep |-> CleanSizes(cd[p])]

(***************************************************************************)
(* Product catalog.                                                        *)
(***************************************************************************)
\* Product.findOne({ id })
ProductExists(cat, pid) == pid \in DOMAIN cat /\ cat[pid].present

\* product.new_price || product.newprice || 0
PriceOf(cat, pid) == cat[pid].new_price

\* variant: the size list of another catalog is consulted
AvailableSizes_Foreign(cat, pid) == cat[pid].sizes \cup {"XS"}

\* productExists.sizes?.length ? productExists.sizes : [...]
AvailableSizes(cat, pid) == cat[pid].sizes

(***************************************************************************)
(* Orders.                                                                 *)
(***************************************************************************)
\* paymentMethod normalisation of createOrUpdateOrder
NormalizePaymentMethod(paymentMethod) ==
  IF paymentMethod = "online" THEN "bank_transfer"
  ELSE IF paymentMethod = "cash" THEN "cash_on_delivery"
  ELSE paymentMethod

\* variant: the query filters on a status value no order carries
FindPendingOrder_WrongStatus(ords, u) ==
  FirstIndex({i \in 1..Len(ords) : ords[i].userId = u /\ ords[i].status = "Pending"})

\* variant: the query leaves the status filter out
FindPendingOrder_AnyStatus(ords, u) ==
  FirstIndex({i \in 1..Len(ords) : ords[i].userId = u})

\* Order.findOne({ userId, status: 'pending' }): index of the first match, 0 when none
FindPendingOrder(ords, u) ==
  FirstIndex({i \in 1..Len(ords) : ords[i].userId = u /\ ords[i].status = "pending"})

\* Order.findById(orderId)
FindOrderById(ords, id) == FirstIndex({i \in 1..Len(ords) : ords[i].id = id})

\* order.items.findIndex(item => item.productId === id && item.size === size)
FindItemIndex(items, pid, size) ==
  FirstIndex({i \in 1..Len(items) : items[i].productId = pid /\ items[i].size = size})

\* items.reduce((sum, item) => sum + item.itemTotal, 0)
RECURSIVE SumItemTotals(_)
SumItemTotals(items) ==
  IF Len(items) = 0 THEN 0
  ELSE items[1].itemTotal + SumItemTotals(Tail(items))

\* items.filter(item => item.status === 'checkedout').reduce(... itemTotal ...)
CheckedoutTotal(items) ==
  SumItemTotals(SelectSeq(items, LAMBDA it : it.status = "checkedout"))

\* Order.countDocuments() + 1, the number behind 'ORD' + padStart(6, '0')
GenerateOrderId(ords) == Len(ords) + 1

\* schema validation and the unique orderId index, as checked by order.save()
SaveAccepts(ords, order) ==
  /\ order.paymentMethod \in PaymentMethods
  /\ order.status \in OrderStatuses
  /\ \A i \in 1..Len(ords) : ords[i].id # order.id => ords[i].orderId # order.orderId

NewItem(pid, size, quantity, price, status) ==
  [productId |-> pid, size |-> size, quantity |-> quantity, price |-> price,
   itemTotal |-> price * quantity, status |-> status]

NewOrder(id, orderId, u, items, total, paymentMethod, day) ==
  [id |-> id, orderId |-> orderId, userId |-> u, items |-> items, total |-> total,
   status |-> "pending", paymentMethod |-> paymentMethod, paymentStatus |-> "pending",
   createdDay |-> day, deliveredAt |-> 0, cancelledAt |-> 0, cancellationReason |-> ""]

(***************************************************************************)
(* Revenue ledger.                                                         *)
(***************************************************************************)
ZeroBucket(day) ==
  [day |-> day, dailyRevenue |-> 0, ordersCount |-> 0, deliveredRevenue |-> 0,
   pendingRevenue |-> 0, cancelledRevenue |-> 0, checkedoutRevenue |-> 0]

\* Revenue.findOne({ date: dateKey })
FindBucket(rev, day) == FirstIndex({i \in 1..Len(rev) : rev[i].day = day})

\* variant: a delivered total reaches deliveredRevenue only
ApplyStatusRevenue_NoDaily(b, order) ==
  IF order.status = "delivered"
  THEN [b EXCEPT !.deliveredRevenue = @ + order.total]
  ELSE IF order.status = "cancelled"
  THEN [b EXCEPT !.cancelledRevenue = @ + order.total]
  ELSE [b EXCEPT !.pendingRevenue = @ + order.total]

\* the status branch shared by the 'add' and 'update' actions
ApplyStatusRevenue(b, order) ==
  IF order.status = "delivered"
  THEN [b EXCEPT !.deliveredRevenue = @ + order.total, !.dailyRevenue = @ + order.total]
  ELSE IF order.status = "cancelled"
  THEN [b EXCEPT !.cancelledRevenue = @ + order.total]
  ELSE [b EXCEPT !.pendingRevenue = @ + order.total]

\* variant: an 'update' leaves checkedoutRevenue alone
ApplyRevenue_NoCheckedout(b, order, action) ==
  IF action = "add"
  THEN LET b1 == ApplyStatusRevenue([b EXCEPT !.ordersCount = @ + 1], order)
       IN [b1 EXCEPT !.checkedoutRevenue = @ + CheckedoutTotal(order.items)]
  ELSE IF action = "update"
  THEN ApplyStatusRevenue(b, order)
  ELSE b

\* the counter updates of updateRevenue on the bucket of the order's day
ApplyRevenue(b, order, action) ==
  IF action = "add"
  THEN LET b1 == ApplyStatusRevenue([b EXCEPT !.ordersCount = @ + 1], order)
       IN [b1 EXCEPT !.checkedoutRevenue = @ + CheckedoutTotal(order.items)]
  ELSE IF action = "update"
  THEN LET b1 == ApplyStatusRevenue(b, order)
       IN [b1 EXCEPT !.checkedoutRevenue = @ + CheckedoutTotal(order.items)]
  ELSE b

\* variant: the catch block rethrows
UpdateRevenueThrows_Rethrow(fault) == fault = "revenue"

\* whether an error of the Revenue read or save leaves updateRevenue (try/catch: never)
UpdateRevenueThrows(fault) == FALSE

\* whether a failing mail or notification write leaves sendPaymentNotification or
\* sendEmail (try/catch in both: never)
SendNotificationThrows(fault) == FALSE

\* updateRevenue(orderData, action); fault "revenue": the Revenue read or save rejects
UpdateRevenue(rev, order, action, fault) ==
  IF fault = "revenue" THEN rev
  ELSE LET i == FindBucket(rev, order.createdDay)
       IN IF i = 0
          THEN Append(rev, ApplyRevenue(ZeroBucket(order.createdDay), order, action))
          ELSE ReplaceAt(rev, i, ApplyRevenue(rev[i], order, action))

\* { $sum: '$deliveredRevenue' } over the buckets of one day
RECURSIVE SumDeliveredRevenue(_, _)
SumDeliveredRevenue(rev, day) ==
  IF Len(rev) = 0 THEN 0
  ELSE (IF rev[1].day = day THEN rev[1].deliveredRevenue ELSE 0)
       + SumDeliveredRevenue(Tail(rev), day)

\* { $sum: '$ordersCount' } over the buckets of one day
RECURSIVE SumOrdersCount(_, _)
SumOrdersCount(rev, day) ==
  IF Len(rev) = 0 THEN 0
  ELSE (IF rev[1].day = day THEN rev[1].ordersCount ELSE 0) + SumOrdersCount(Tail(rev), day)

\* GET /admin/revenue?period=daily: one group per day that has a bucket
AdminRevenueDaily(rev) ==
  {[day |-> d, deliveredRevenue |-> SumDeliveredRevenue(rev, d),
    ordersCount |-> SumOrdersCount(rev, d)] : d \in {rev[i].day : i \in 1..Len(rev)}}

(***************************************************************************)
(* createOrUpdateOrder(user, product, quantity, size, paymentMethod, 'add')*)
(* The result carries the collections after the call and whether it threw. *)
(***************************************************************************)
\* the item merge of the "order exists" branch
MergeItem(items, pid, size, quantity, price) ==
  LET i == FindItemIndex(items, pid, size)
      itemTotal == price * Abs(quantity)
  IN IF i > 0
     THEN IF quantity > 0
          THEN ReplaceAt(items, i, [items[i] EXCEPT !.quantity = @ + quantity,
                                                    !.itemTotal = @ + itemTotal])
          ELSE IF quantity < 0
          THEN LET q == items[i].quantity + quantity
               IN IF q <= 0 THEN RemoveAt(items, i)
                  ELSE ReplaceAt(items, i, [items[i] EXCEPT !.quantity = q,
                                                            !.itemTotal = items[i].price * q])
          ELSE items
     ELSE IF quantity > 0
          THEN Append(items, NewItem(pid, size, Abs(quantity), price, "in_cart"))
          ELSE items

\* variant: the items are stored without recomputing order.total
Retotal_StaleTotal(order, items, day) ==
  LET o1 == [order EXCEPT !.items = items]
  IN IF Len(items) = 0
     THEN [o1 EXCEPT !.status = "cancelled", !.cancelledAt = day,
                     !.cancellationReason = "All items removed from cart"]
     ELSE o1

\* total recomputation and cancellation of an emptied order
Retotal(order, items, day) ==
  LET o1 == [order EXCEPT !.items = items, !.total = SumItemTotals(items)]
  IN IF Len(items) = 0
     THEN [o1 EXCEPT !.status = "cancelled", !.cancelledAt = day,
                     !.cancellationReason = "All items removed from cart"]
     ELSE o1

CreateOrUpdateOrder(ords, rev, nid, cat, u, pid, quantity, size, paymentMethod, day, fault) ==
  LET norm == NormalizePaymentMethod(paymentMethod)
      oi == FindPendingOrder(ords, u)
      price == PriceOf(cat, pid)
      same == [orders |-> ords, revenue |-> rev, nextId |-> nid, threw |-> FALSE]
  IN IF oi = 0 /\ quantity > 0
     THEN LET order == NewOrder(nid, GenerateOrderId(ords), u,
                                <<NewItem(pid, size, Abs(quantity), price, "in_cart")>>,
                                price * Abs(quantity), norm, day)
          IN IF ~SaveAccepts(ords, order) THEN [same EXCEPT !.threw = TRUE]
             ELSE [orders |-> Append(ords, order),
                   revenue |-> UpdateRevenue(rev, order, "add", fault),
                   nextId |-> nid + 1,
                   threw |-> UpdateRevenueThrows(fault)]
     ELSE IF oi > 0
     THEN LET o1 == Retotal(ords[oi], MergeItem(ords[oi].items, pid, size, quantity, price), day)
              order == [o1 EXCEPT !.paymentMethod = norm]
          IN IF ~SaveAccepts(ords, order) THEN [same EXCEPT !.threw = TRUE]
             ELSE [orders |-> ReplaceAt(ords, oi, order),
                   revenue |-> UpdateRevenue(rev, order, "update", fault),
                   nextId |-> nid,
                   threw |-> UpdateRevenueThrows(fault)]
     ELSE same

(***************************************************************************)
(* Request handlers.  Each takes the stored state and the request and      *)
(* yields the stored state after the request and the HTTP status.          *)
(***************************************************************************)
Response(cd, ords, rev, nid, code) ==
  [cart |-> cd, orders |-> ords, revenue |-> rev, nextId |-> nid, code |-> code]

\* POST /addtocart; numeric: Number(req.body.quantity) is not NaN
AddToCartHandler(cd, ords, rev, nid, cat, day, u, numeric, itemId, sizeIn, quantity, paymentMethod, fault) ==
  LET size == IF sizeIn = "" THEN "default" ELSE sizeIn
      same == Response(cd, ords, rev, nid, 400)
  IN IF ~numeric \/ quantity = 0 THEN same
     ELSE IF size = "default" THEN same
     ELSE IF ~ProductExists(cat, itemId) THEN [same EXCEPT !.code = 404]
     ELSE IF size \notin AvailableSizes(cat, itemId) THEN same
     ELSE LET cd1 == AddToCartData(cd, itemId, size, quantity)
              r == CreateOrUpdateOrder(ords, rev, nid, cat, u, itemId, quantity, size,
                                       paymentMethod, day, fault)
          IN Response(cd1, r.orders, r.revenue, r.nextId, IF r.threw THEN 500 ELSE 200)

\* the pending-order update of POST /updatecartquantity
SetItemQuantity(order, pid, size, newQuantity, price, day) ==
  LET i == FindItemIndex(order.items, pid, size)
      items == IF i > 0
               THEN IF newQuantity <= 0 THEN RemoveAt(order.items, i)
                    ELSE ReplaceAt(order.items, i,
                                   [order.items[i] EXCEPT !.quantity = newQuantity,
                                                          !.itemTotal = price * newQuantity])
               ELSE IF newQuantity > 0
               THEN Append(order.items, NewItem(pid, size, newQuantity, price, "in_cart"))
               ELSE order.items
  IN Retotal(order, items, day)

\* POST /updatecartquantity; missing: a required body field is absent
UpdateCartQuantityHandler(cd, ords, rev, nid, cat, day, u, missing, itemId, size, quantity, fault) ==
  LET same == Response(cd, ords, rev, nid, 400)
      newQuantity == CartQty(cd, itemId, size) + quantity
  IN IF missing THEN same
     ELSE IF ~ProductExists(cat, itemId) THEN [same EXCEPT !.code = 404]
     ELSE IF newQuantity < 0 THEN same
     ELSE LET cd1 == UpdateCartData(cd, itemId, size, newQuantity)
              oi == FindPendingOrder(ords, u)
          IN IF oi = 0 THEN Response(cd1, ords, rev, nid, 200)
             ELSE LET order == SetItemQuantity(ords[oi], itemId, size, newQuantity,
                                               PriceOf(cat, itemId), day)
                  IN IF ~SaveAccepts(ords, order) THEN Response(cd1, ords, rev, nid, 500)
                     ELSE Response(cd1, ReplaceAt(ords, oi, order),
                                   UpdateRevenue(rev, order, "update", fault), nid,
                                   IF UpdateRevenueThrows(fault) THEN 500 ELSE 200)

\* variant: the built items keep the default item status
RECURSIVE CheckoutSizes_InCart(_, _, _)
CheckoutSizes_InCart(sizes, pid, price) ==
  IF Len(sizes) = 0 THEN <<>>
  ELSE (IF sizes[1].qty > 0
        THEN <<NewItem(pid, sizes[1].size, sizes[1].qty, price, "in_cart")>>
        ELSE <<>>) \o CheckoutSizes_InCart(Tail(sizes), pid, price)

\* the items POST /checkout builds from one product's size map
RECURSIVE CheckoutSizes(_, _, _)
CheckoutSizes(sizes, pid, price) ==
  IF Len(sizes) = 0 THEN <<>>
  ELSE (IF sizes[1].qty > 0
        THEN <<NewItem(pid, sizes[1].size, sizes[1].qty, price, "checkedout")>>
        ELSE <<>>) \o CheckoutSizes(Tail(sizes), pid, price)

\* the items POST /checkout builds from cartData; integer keys iterate in ascending order
RECURSIVE CheckoutItems(_, _, _)
CheckoutItems(cd, cat, pids) ==
  IF pids = {} THEN <<>>
  ELSE LET p == CHOOSE x \in pids : \A y \in pids : x <= y
       IN (IF ProductExists(cat, p) THEN CheckoutSizes(cd[p], p, PriceOf(cat, p)) ELSE <<>>)
          \o CheckoutItems(cd, cat, pids \ {p})

\* totalAmount += itemTotal over one product's size map
RECURSIVE CheckoutSizesTotal(_, _)
CheckoutSizesTotal(sizes, price) ==
  IF Len(sizes) = 0 THEN 0
  ELSE (IF sizes[1].qty > 0 THEN price * sizes[1].qty ELSE 0)
       + CheckoutSizesTotal(Tail(sizes), price)

\* totalAmount as POST /checkout accumulates it over cartData
RECURSIVE CheckoutTotal(_, _, _)
CheckoutTotal(cd, cat, pids) ==
  IF pids = {} THEN 0
  ELSE LET p == CHOOSE x \in pids : \A y \in pids : x <= y
       IN (IF ProductExists(cat, p) THEN CheckoutSizesTotal(cd[p], PriceOf(cat, p)) ELSE 0)
          + CheckoutTotal(cd, cat, pids \ {p})

\* POST /checkout; missing: address, phone or paymentMethod is absent
CheckoutHandler(cd, ords, rev, nid, cat, day, u, missing, paymentMethod, fault) ==
  LET same == Response(cd, ords, rev, nid, 400)
  IN IF missing THEN same
     ELSE IF paymentMethod \notin PaymentMethods THEN same
     ELSE IF DOMAIN cd = {} THEN same
     ELSE LET updatedItems == CheckoutItems(cd, cat, DOMAIN cd)
              totalAmount == CheckoutTotal(cd, cat, DOMAIN cd)
              oi == FindPendingOrder(ords, u)
          IN IF oi > 0
             THEN LET order == [ords[oi] EXCEPT !.items = updatedItems,
                                                !.total = totalAmount,
                                                !.paymentMethod = paymentMethod,
                                                !.paymentStatus = "pending"]
                  IN IF ~SaveAccepts(ords, order) THEN Response(EmptyMap, ords, rev, nid, 500)
                     ELSE Response(EmptyMap, ReplaceAt(ords, oi, order),
                                   UpdateRevenue(rev, order, "update", fault), nid,
                                   IF UpdateRevenueThrows(fault) \/ SendNotificationThrows(fault)
                                   THEN 500 ELSE 200)
             ELSE LET order == [NewOrder(nid, GenerateOrderId(ords), u, updatedItems,
                                         totalAmount, paymentMethod, day)
                                  EXCEPT !.paymentStatus = "pending"]
                  IN IF ~SaveAccepts(ords, order) THEN Response(EmptyMap, ords, rev, nid, 500)
                     ELSE Response(EmptyMap, Append(ords, order),
                                   UpdateRevenue(rev, order, "add", fault), nid + 1,
                                   IF UpdateRevenueThrows(fault) \/ SendNotificationThrows(fault)
                                   THEN 500 ELSE 200)

\* POST /createorder; paymentMethod "" stands for an absent field
CreateOrderHandler(cd, ords, rev, nid, u, paymentMethod, fault) ==
  LET oi == FindPendingOrder(ords, u)
  IN IF oi = 0 THEN Response(cd, ords, rev, nid, 400)
     ELSE LET order == [ords[oi] EXCEPT
                          !.paymentMethod = IF paymentMethod = "" THEN @ ELSE paymentMethod,
                          !.status = "processing"]
          IN IF ~SaveAccepts(ords, order) THEN Response(cd, ords, rev, nid, 500)
             ELSE Response(EmptyMap, ReplaceAt(ords, oi, order),
                           UpdateRevenue(rev, order, "update", fault), nid,
                           IF UpdateRevenueThrows(fault) THEN 500 ELSE 200)

\* POST /clearcart
ClearCartHandler(cd, ords, rev, nid, day, u, fault) ==
  LET oi == FindPendingOrder(ords, u)
  IN IF oi = 0 THEN Response(EmptyMap, ords, rev, nid, 200)
     ELSE LET order == [ords[oi] EXCEPT !.status = "cancelled", !.cancelledAt = day,
                                        !.cancellationReason = "Cart cleared by user"]
          IN IF UpdateRevenueThrows(fault)
             THEN Response(cd, ReplaceAt(ords, oi, order),
                           UpdateRevenue(rev, order, "update", fault), nid, 500)
             ELSE Response(EmptyMap, ReplaceAt(ords, oi, order),
                           UpdateRevenue(rev, order, "update", fault), nid, 200)

\* GET /getcartdata: the stored cartData after the lazy write-back
GetCartDataHandler(cd) ==
  IF CleanCartData(cd) # cd THEN CleanCartData(cd) ELSE cd

\* the order fields POST /admin/orders/:orderId/status sets
SetStatus(order, status, reason, day) ==
  LET o1 == [order EXCEPT !.status = status]
  IN IF status = "delivered"
     THEN [o1 EXCEPT !.deliveredAt = day, !.paymentStatus = "paid"]
     ELSE IF status = "cancelled"
     THEN [o1 EXCEPT !.cancelledAt = day, !.paymentStatus = "failed",
                     !.cancellationReason = IF reason = "" THEN @ ELSE reason]
     ELSE o1

\* POST /admin/orders/:orderId/status
AdminStatusHandler(ords, rev, nid, day, id, status, reason, fault) ==
  LET oi == FindOrderById(ords, id)
  IN IF status \notin OrderStatuses THEN Response(EmptyMap, ords, rev, nid, 400)
     ELSE IF oi = 0 THEN Response(EmptyMap, ords, rev, nid, 404)
     ELSE IF status \in {"delivered", "cancelled"} /\ SendNotificationThrows(fault)
     THEN Response(EmptyMap, ords, rev, nid, 500)
     ELSE LET order == SetStatus(ords[oi], status, reason, day)
          IN Response(EmptyMap, ReplaceAt(ords, oi, order),
                      UpdateRevenue(rev, order, "update", fault), nid,
                      IF UpdateRevenueThrows(fault) THEN 500 ELSE 200)

\* DELETE /admin/orders/:orderId
AdminDeleteHandler(ords, rev, nid, id, fault) ==
  LET oi == FindOrderById(ords, id)
  IN IF oi = 0 THEN Response(EmptyMap, ords, rev, nid, 404)
     ELSE IF UpdateRevenueThrows(fault)
     THEN Response(EmptyMap, ords, UpdateRevenue(rev, ords[oi], "remove", fault), nid, 500)
     ELSE Response(EmptyMap, RemoveAt(ords, oi),
                   UpdateRevenue(rev, ords[oi], "remove", fault), nid, 200)

(***************************************************************************)
(* Shop context of the storefront (src/unnamed/part_003) and the cart page *)
(* (src/CartItem.jsx).  The client's cartItems is taken in step with the   *)
(* stored cartData, as it is after a page load or a successful call. Code  *)
(* 0 tells that the function returned a failure without sending a request. *)
(***************************************************************************)
\* the largest quantity the cart page lets a line have
MaxQuantity == 10

\* addToCart(itemId, selectedSize, paymentMethod = 'cash'): POST /addtocart with quantity 1
ClientAddToCartHandler(cd, ords, rev, nid, cat, day, u, itemId, selectedSize) ==
  IF selectedSize \in {"", "default"} \/ ~ProductExists(cat, itemId)
  THEN Response(cd, ords, rev, nid, 0)
  ELSE AddToCartHandler(cd, ords, rev, nid, cat, day, u, TRUE, itemId, selectedSize, 1,
                        "cash", "none")

\* removeFromCart(itemId, selectedSize): POST /addtocart with quantity -1 and no
\* paymentMethod, for which the server takes 'cash_on_delivery'
ClientRemoveFromCartHandler(cd, ords, rev, nid, cat, day, u, itemId, selectedSize) ==
  IF ~ProductExists(cat, itemId)
  THEN Response(cd, ords, rev, nid, 0)
  ELSE AddToCartHandler(cd, ords, rev, nid, cat, day, u, TRUE, itemId, selectedSize, -1,
                        "cash_on_delivery", "none")

\* updateCartQuantity(itemId, size, newQuantity): POST /addtocart with the difference to
\* the current quantity, and no request when the difference is 0
ClientUpdateCartQuantityHandler(cd, ords, rev, nid, cat, day, u, itemId, size, newQuantity) ==
  LET currentQuantity == CartQty(cd, itemId, size)
      difference == newQuantity - currentQuantity
  IN IF ~ProductExists(cat, itemId) THEN Response(cd, ords, rev, nid, 0)
     ELSE IF difference = 0 THEN Response(cd, ords, rev, nid, 200)
     ELSE AddToCartHandler(cd, ords, rev, nid, cat, day, u, TRUE, itemId, size, difference,
                           "cash", "none")

\* the clamp of handleUpdateQuantity
ClampQuantity(newQuantity) ==
  IF newQuantity < 1 THEN 1
  ELSE IF newQuantity > MaxQuantity THEN MaxQuantity
  ELSE newQuantity

\* handleUpdateQuantity(itemId, size, newQuantity) of the cart page
HandleUpdateQuantityHandler(cd, ords, rev, nid, cat, day, u, itemId, size, newQuantity) ==
  IF ClampQuantity(newQuantity) = CartQty(cd, itemId, size)
  THEN Response(cd, ords, rev, nid, 200)
  ELSE ClientUpdateCartQuantityHandler(cd, ords, rev, nid, cat, day, u, itemId, size,
                                       ClampQuantity(newQuantity))

(***************************************************************************)
(* State machine.                                                          *)
(***************************************************************************)
\* the request served last and its HTTP status
\* bad: a required field is absent or the quantity is not a number
Op(op, user, code, pid, size, qty, arg, oid, bad, fault) ==
  [op |-> op, user |-> user, code |-> code, pid |-> pid, size |-> size, qty |-> qty,
   arg |-> arg, oid |-> oid, bad |-> bad, fault |-> fault]

\* the request slots of the server: each holds one /addtocart request between its awaits
Requests == {"r1", "r2"}

\* a slot that serves no request; user: the user it served last; added: the deltas of
\* the requests it answered with success
Idle ==
  [pc |-> "idle", user |-> "", pid |-> 0, size |-> "", qty |-> 0, cd |-> EmptyMap,
   oi |-> 0, order |-> <<>>, read |-> <<>>, action |-> "", bi |-> 0, bucket |-> <<>>,
   loaded |-> <<>>, served |-> 0, code |-> 0, added |-> [u \in Users |-> 0]]

\* the products on sale when the exploration starts
InitialCatalog ==
  [p \in ProductIds |->
     [present |-> TRUE,
      new_price |-> IF p = 1 THEN 100 ELSE 150,
      sizes |-> IF p = 1 THEN {"M", "L"} ELSE {"M"}]]

Init ==
  /\ cart = [u \in Users |-> EmptyMap]
  /\ orders = <<>>
  /\ revenue = <<>>
  /\ catalog = InitialCatalog
  /\ nextId = 1
  /\ today = 1
  /\ steps = 0
  /\ lastOp = Op("none", "", 0, 0, "", 0, "", 0, FALSE, "none")
  /\ inflight = [p \in Requests |-> Idle]
  /\ cartItems = EmptyMap

Commit(u, r, op) ==
  /\ steps < MaxSteps
  /\ cart' = [cart EXCEPT ![u] = r.cart]
  /\ orders' = r.orders
  /\ revenue' = r.revenue
  /\ nextId' = r.nextId
  /\ steps' = steps + 1
  /\ lastOp' = op
  /\ UNCHANGED <<catalog, today, inflight, cartItems>>

AddToCart(u, numeric, itemId, size, quantity, paymentMethod, fault) ==
  LET r == AddToCartHandler(cart[u], orders, revenue, nextId, catalog, today, u, numeric,
                            itemId, size, quantity, paymentMethod, fault)
  IN Commit(u, r, Op("addtocart", u, r.code, itemId, size, quantity, paymentMethod, 0,
                     ~numeric, fault))

UpdateCartQuantity(u, missing, itemId, size, quantity, fault) ==
  LET r == UpdateCartQuantityHandler(cart[u], orders, revenue, nextId, catalog, today, u,
                                     missing, itemId, size, quantity, fault)
  IN Commit(u, r, Op("updatecartquantity", u, r.code, itemId, size, quantity, "", 0,
                     missing, fault))

Checkout(u, missing, paymentMethod, fault) ==
  LET r == CheckoutHandler(cart[u], orders, revenue, nextId, catalog, today, u, missing,
                           paymentMethod, fault)
  IN Commit(u, r, Op("checkout", u, r.code, 0, "", 0, paymentMethod, 0, missing, fault))

CreateOrder(u, paymentMethod, fault) ==
  LET r == CreateOrderHandler(cart[u], orders, revenue, nextId, u, paymentMethod, fault)
  IN Commit(u, r, Op("createorder", u, r.code, 0, "", 0, paymentMethod, 0, FALSE, fault))

ClearCart(u, fault) ==
  LET r == ClearCartHandler(cart[u], orders, revenue, nextId, today, u, fault)
  IN Commit(u, r, Op("clearcart", u, r.code, 0, "", 0, "", 0, FALSE, fault))

GetCartData(u) ==
  /\ steps < MaxSteps
  /\ cart' = [cart EXCEPT ![u] = GetCartDataHandler(cart[u])]
  /\ steps' = steps + 1
  /\ lastOp' = Op("getcartdata", u, 200, 0, "", 0, "", 0, FALSE, "none")
  /\ UNCHANGED <<orders, revenue, catalog, nextId, today, inflight, cartItems>>

AdminCommit(r, op) ==
  /\ steps < MaxSteps
  /\ orders' = r.orders
  /\ revenue' = r.revenue
  /\ steps' = steps + 1
  /\ lastOp' = op
  /\ UNCHANGED <<cart, catalog, nextId, today, inflight, cartItems>>

AdminSetStatus(id, status, reason, fault) ==
  LET r == AdminStatusHandler(orders, revenue, nextId, today, id, status, reason, fault)
  IN AdminCommit(r, Op("setstatus", "admin", r.code, 0, "", 0, status, id, FALSE, fault))

AdminDeleteOrder(id, fault) ==
  LET r == AdminDeleteHandler(orders, revenue, nextId, id, fault)
  IN AdminCommit(r, Op("deleteorder", "admin", r.code, 0, "", 0, "", id, FALSE, fault))

\* PUT /updateproduct with new_price
UpdateProduct(pid, price) ==
  /\ steps < MaxSteps
  /\ ProductExists(catalog, pid)
  /\ catalog[pid].new_price # price
  /\ catalog' = [catalog EXCEPT ![pid].new_price = price]
  /\ steps' = steps + 1
  /\ lastOp' = Op("updateproduct", "admin", 200, pid, "", price, "", 0, FALSE, "none")
  /\ UNCHANGED <<cart, orders, revenue, nextId, today, inflight, cartItems>>

\* POST /removeproduct
RemoveProduct(pid) ==
  /\ steps < MaxSteps
  /\ ProductExists(catalog, pid)
  /\ catalog' = [catalog EXCEPT ![pid].present = FALSE]
  /\ steps' = steps + 1
  /\ lastOp' = Op("removeproduct", "admin", 200, pid, "", 0, "", 0, FALSE, "none")
  /\ UNCHANGED <<cart, orders, revenue, nextId, today, inflight, cartItems>>

\* midnight passes: new Date() falls on the next calendar day
NextDay ==
  /\ steps < MaxSteps
  /\ today < MaxDay
  /\ today' = today + 1
  /\ steps' = steps + 1
  /\ lastOp' = Op("nextday", "", 0, 0, "", 0, "", 0, FALSE, "none")
  /\ UNCHANGED <<cart, orders, revenue, catalog, nextId, inflight, cartItems>>

ClientAddToCart(u, itemId, selectedSize) ==
  LET r == ClientAddToCartHandler(cart[u], orders, revenue, nextId, catalog, today, u,
                                  itemId, selectedSize)
  IN Commit(u, r, Op("addToCart", u, r.code, itemId, selectedSize, 1, "cash", 0, FALSE, "none"))

ClientRemoveFromCart(u, itemId, selectedSize) ==
  LET r == ClientRemoveFromCartHandler(cart[u], orders, revenue, nextId, catalog, today, u,
                                       itemId, selectedSize)
  IN Commit(u, r, Op("removeFromCart", u, r.code, itemId, selectedSize, -1, "", 0, FALSE, "none"))

ClientUpdateCartQuantity(u, itemId, size, newQuantity) ==
  LET r == ClientUpdateCartQuantityHandler(cart[u], orders, revenue, nextId, catalog, today,
                                           u, itemId, size, newQuantity)
  IN Commit(u, r, Op("updateCartQuantity", u, r.code, itemId, size, newQuantity, "cash", 0,
                     FALSE, "none"))

\* the cart page offers the quantity control of the lines it lists
HandleUpdateQuantity(u, itemId, size, newQuantity) ==
  LET r == HandleUpdateQuantityHandler(cart[u], orders, revenue, nextId, catalog, today, u,
                                       itemId, size, newQuantity)
  IN /\ CartQty(cart[u], itemId, size) > 0
     /\ Commit(u, r, Op("handleUpdateQuantity", u, r.code, itemId, size, newQuantity, "cash",
                        0, FALSE, "none"))

OrderIds == {orders[i].id : i \in 1..Len(orders)}

\* request bodies the exploration draws from
Deltas == {-1, 1, 2}
\* the (product, size) pairs the catalog offers
Lines == {<<1, "M">>, <<1, "L">>, <<2, "M">>}
StatusInputs == {"pending", "processing", "delivered", "cancelled"}

\* the cart requests of user u with well-formed bodies
CartStep(u) ==
  \/ \E l \in Lines, q \in Deltas : AddToCart(u, TRUE, l[1], l[2], q, "cash", "none")
  \/ \E l \in Lines, q \in Deltas : UpdateCartQuantity(u, FALSE, l[1], l[2], q, "none")
  \/ Checkout(u, FALSE, "cash_on_delivery", "none")
  \/ CreateOrder(u, "", "none")
  \/ ClearCart(u, "none")
  \/ GetCartData(u)

\* the admin requests on orders
AdminStep ==
  \/ \E id \in OrderIds, st \in StatusInputs : AdminSetStatus(id, st, "", "none")
  \/ \E id \in OrderIds : AdminDeleteOrder(id, "none")

\* the admin requests on the catalog
CatalogStep ==
  \/ \E p \in ProductIds, pr \in Prices : UpdateProduct(p, pr)
  \/ \E p \in ProductIds : RemoveProduct(p)

\* one shopper, the admin, the catalog and the calendar
Next == CartStep("u1") \/ AdminStep \/ CatalogStep \/ NextDay

Spec == Init /\ [][Next]_vars

\* two shoppers, cart requests only
NextCart == \E u \in Users : CartStep(u)

SpecCart == Init /\ [][NextCart]_vars

\* one shopper using only the cart requests that keep a pending order as the cart's mirror
NextMirror ==
  \/ \E l \in Lines, q \in Deltas : AddToCart("u1", TRUE, l[1], l[2], q, "cash", "none")
  \/ \E l \in Lines, q \in Deltas : UpdateCartQuantity("u1", FALSE, l[1], l[2], q, "none")
  \/ GetCartData("u1")
  \/ ClearCart("u1", "none")

SpecMirror == Init /\ [][NextMirror]_vars

\* malformed request bodies of POST /addtocart: <<numeric, itemId, size, quantity>>
BadAddRequests ==
  {<<TRUE, 1, "M", 0>>, <<FALSE, 1, "M", 1>>, <<TRUE, 1, "", 1>>, <<TRUE, 1, "default", 1>>,
   <<TRUE, 1, "XS", 1>>, <<TRUE, 2, "L", 1>>}
  \cup {<<TRUE, p, "M", 1>> : p \in UnknownProducts}

\* one shopper and the admin, with rejected requests, an order the schema refuses
\* (paymentMethod "bitcoin") and failing downstream services
NextFaulty ==
  \/ \E l \in Lines, q \in {-1, 1}, pm \in {"cash", "bitcoin"}, f \in Faults :
       AddToCart("u1", TRUE, l[1], l[2], q, pm, f)
  \/ \E b \in BadAddRequests : AddToCart("u1", b[1], b[2], b[3], b[4], "cash", "none")
  \/ \E l \in Lines, q \in {-1, 1}, f \in Faults :
       UpdateCartQuantity("u1", FALSE, l[1], l[2], q, f)
  \/ \E missing \in BOOLEAN, pm \in {"cash_on_delivery", "bitcoin"}, f \in Faults :
       Checkout("u1", missing, pm, f)
  \/ \E id \in OrderIds \cup UnknownOrders, st \in StatusInputs \cup {"refunded"},
       f \in Faults : AdminSetStatus(id, st, "", f)

SpecFaulty == Init /\ [][NextFaulty]_vars

\* a store with history: u2 has added a product, confirmed the order with /createorder
\* and added another product, each step computed by the handler that serves it
BusyFirstAdd ==
  AddToCartHandler(EmptyMap, <<>>, <<>>, 1, InitialCatalog, 1, "u2", TRUE, 1, "M", 1, "cash", "none")

BusyConfirm ==
  CreateOrderHandler(BusyFirstAdd.cart, BusyFirstAdd.orders, BusyFirstAdd.revenue,
                     BusyFirstAdd.nextId, "u2", "", "none")

BusySecondAdd ==
  AddToCartHandler(BusyConfirm.cart, BusyConfirm.orders, BusyConfirm.revenue,
                   BusyConfirm.nextId, InitialCatalog, 1, "u2", TRUE, 2, "M", 1, "cash", "none")

InitBusy ==
  /\ cart = [u \in Users |-> IF u = "u2" THEN BusySecondAdd.cart ELSE EmptyMap]
  /\ orders = BusySecondAdd.orders
  /\ revenue = BusySecondAdd.revenue
  /\ catalog = InitialCatalog
  /\ nextId = BusySecondAdd.nextId
  /\ today = 1
  /\ steps = 0
  /\ lastOp = Op("addtocart", "u2", BusySecondAdd.code, 2, "M", 1, "cash", 0, FALSE, "none")
  /\ inflight = [p \in Requests |-> Idle]
  /\ cartItems = EmptyMap

\* two shoppers and the admin in the store with history
NextBusy ==
  \/ \E u \in Users, l \in Lines, q \in {-1, 1} : AddToCart(u, TRUE, l[1], l[2], q, "cash", "none")
  \/ \E u \in Users : Checkout(u, FALSE, "cash_on_delivery", "none")
  \/ \E u \in Users : ClearCart(u, "none")
  \/ \E id \in OrderIds, st \in StatusInputs : AdminSetStatus(id, st, "", "none")
  \/ \E id \in OrderIds : AdminDeleteOrder(id, "none")

SpecBusy == InitBusy /\ [][NextBusy]_vars

\* quantities asked of updateCartQuantity, and of the cart page's quantity control
TargetQuantities == {0, 2}
TypedQuantities == {0, 11}
\* deltas of a POST /addtocart sent without the storefront
BulkDeltas == {2, 11}

\* one shopper using the storefront, and the same account sending requests of its own
NextClient ==
  \/ \E l \in Lines : ClientAddToCart("u1", l[1], l[2])
  \/ \E l \in Lines : ClientRemoveFromCart("u1", l[1], l[2])
  \/ \E l \in Lines, n \in TargetQuantities : ClientUpdateCartQuantity("u1", l[1], l[2], n)
  \/ \E l \in Lines, n \in TypedQuantities : HandleUpdateQuantity("u1", l[1], l[2], n)
  \/ \E l \in Lines, q \in BulkDeltas : AddToCart("u1", TRUE, l[1], l[2], q, "cash", "none")
  \/ \E l \in Lines, q \in {-1, 1} : UpdateCartQuantity("u1", FALSE, l[1], l[2], q, "none")

SpecClient == Init /\ [][NextClient]_vars

(***************************************************************************)
(* Properties.                                                             *)
(***************************************************************************)
PendingOrders(u) == {i \in 1..Len(orders) : orders[i].userId = u /\ orders[i].status = "pending"}

\* C1: after any sequence of cart requests issued one at a time, every user has at most
\* one order with status 'pending'
C1_SinglePendingOrder == \A u \in Users : Cardinality(PendingOrders(u)) <= 1

\* a user who confirmed one order has opened the next pending one by adding to the cart
C1_Witness ==
  \E u \in Users :
    /\ lastOp.op = "addtocart" /\ lastOp.user = u /\ lastOp.code = 200
    /\ Cardinality(PendingOrders(u)) = 1
    /\ \E i \in 1..Len(orders) : orders[i].userId = u /\ orders[i].status = "processing"

\* C2: every stored order's total is the sum of the itemTotal of its items
C2_TotalIsSumOfItems ==
  \A i \in 1..Len(orders) : orders[i].total = SumItemTotals(orders[i].items)

\* a pending order of two items that a cart request has just rewritten
C2_Witness ==
  /\ lastOp.op \in {"addtocart", "updatecartquantity", "checkout"} /\ lastOp.code = 200
  /\ \E i \in 1..Len(orders) : Len(orders[i].items) >= 2 /\ orders[i].total > 0

\* C3: every item of every order has itemTotal = price * quantity, with the item's own
\* stored price, also when the catalog price changed between two requests on the line
C3_ItemTotalIsPriceTimesQuantity ==
  \A i \in 1..Len(orders) : \A k \in 1..Len(orders[i].items) :
    orders[i].items[k].itemTotal = orders[i].items[k].price * orders[i].items[k].quantity

\* C4: while a user's order is pending, each of its 'in_cart' items carries the quantity
\* cartData holds for the same (productId, size)
C4_CartOrderMirror ==
  \A u \in Users : \A i \in PendingOrders(u) : \A k \in 1..Len(orders[i].items) :
    orders[i].items[k].status = "in_cart" =>
      orders[i].items[k].quantity =
        CartQty(cart[u], orders[i].items[k].productId, orders[i].items[k].size)

\* the five revenue counters of every bucket
Counters(rev) ==
  [i \in 1..Len(rev) |->
     <<rev[i].day, rev[i].deliveredRevenue, rev[i].dailyRevenue, rev[i].pendingRevenue,
       rev[i].cancelledRevenue, rev[i].checkedoutRevenue>>]

\* C5: when the admin sets the same status on the same order twice in a row, the second
\* request leaves deliveredRevenue, dailyRevenue, pendingRevenue, cancelledRevenue and
\* checkedoutRevenue of every bucket unchanged
C5_RepeatedStatusNoDoubleCount ==
  [][(/\ steps' = steps + 1
      /\ lastOp.op = "setstatus" /\ lastOp.code = 200
      /\ lastOp'.op = "setstatus" /\ lastOp'.code = 200
      /\ lastOp'.oid = lastOp.oid /\ lastOp'.arg = lastOp.arg)
     => Counters(revenue') = Counters(revenue)]_vars

\* C6: as long as no order was deleted, a day whose orders are all pending or cancelled
\* has deliveredRevenue 0, the figure GET /admin/revenue sums
C6_NoPendingOrCancelledInDelivered ==
  Len(orders) = nextId - 1 =>
    \A b \in 1..Len(revenue) :
      (\A i \in 1..Len(orders) :
         orders[i].createdDay = revenue[b].day => orders[i].status \in {"pending", "cancelled"})
      => revenue[b].deliveredRevenue = 0

\* C7: a /addtocart, /updatecartquantity or /checkout request that ends with an error
\* response leaves cartData and every order as they were
C7_AllOrNothing ==
  [][(/\ steps' = steps + 1
      /\ lastOp'.op \in {"addtocart", "updatecartquantity", "checkout"}
      /\ lastOp'.code # 200)
     => (cart' = cart /\ orders' = orders)]_vars

\* the requests C8 lists, judged on the request body and the state before the request
Rejected(op) ==
  \/ /\ op.op = "addtocart"
     /\ \/ op.bad
        \/ op.qty = 0
        \/ op.size \in {"", "default"}
        \/ op.pid \notin DOMAIN catalog
        \/ ~catalog[op.pid].present
        \/ op.size \notin catalog[op.pid].sizes
  \/ /\ op.op = "checkout"
     /\ (op.bad \/ op.arg \notin PaymentMethods \/ DOMAIN cart[op.user] = {})
  \/ /\ op.op = "setstatus"
     /\ (op.arg \notin OrderStatuses \/ op.oid \notin OrderIds)

Unfaulted(op) ==
  IF op.op = "addtocart"
  THEN AddToCartHandler(cart[op.user], orders, revenue, nextId, catalog, today, op.user,
                        ~op.bad, op.pid, op.size, op.qty, op.arg, "none")
  ELSE IF op.op = "checkout"
  THEN CheckoutHandler(cart[op.user], orders, revenue, nextId, catalog, today, op.user,
                       op.bad, op.arg, "none")
  ELSE AdminStatusHandler(orders, revenue, nextId, today, op.oid, op.arg, "", "none")

CartLines(cd) ==
  {l \in ProductIds \X (Sizes \cup BadSizes) : CartQty(cd, l[1], l[2]) > 0}

RECURSIVE LinesTotal(_, _, _)
LinesTotal(cd, cat, lines) ==
  IF lines = {} THEN 0
  ELSE LET l == CHOOSE x \in lines : TRUE
       IN cat[l[1]].new_price * CartQty(cd, l[1], l[2]) + LinesTotal(cd, cat, lines \ {l})

\* the order o holds exactly one item per line of lines, each checked out with the
\* quantity the cart cd has for the line
HoldsLines(o, cd, lines) ==
  /\ Len(o.items) = Cardinality(lines)
  /\ \A l \in lines :
       \E k \in 1..Len(o.items) :
         /\ o.items[k].productId = l[1] /\ o.items[k].size = l[2]
         /\ o.items[k].quantity = CartQty(cd, l[1], l[2])
  /\ \A k \in 1..Len(o.items) : o.items[k].status = "checkedout"

\* the order a successful /checkout of user u wrote: the former pending order or a new one
CheckedOutOrder(u, i) ==
  /\ i \in 1..Len(orders')
  /\ orders'[i].userId = u
  /\ orders'[i].status = "pending"
  /\ IF PendingOrders(u) = {} THEN i = Len(orders) + 1
     ELSE i = CHOOSE j \in PendingOrders(u) : \A k \in PendingOrders(u) : j <= k

\* the pending order o is the mirror of the cart cd: one 'in_cart' item per line
Mirrors(o, cd) ==
  /\ Len(o.items) = Cardinality(CartLines(cd))
  /\ \A k \in 1..Len(o.items) :
       /\ o.items[k].status = "in_cart"
       /\ o.items[k].quantity = CartQty(cd, o.items[k].productId, o.items[k].size)

CheckedoutRevenueOf(rev, day) ==
  IF FindBucket(rev, day) = 0 THEN 0 ELSE rev[FindBucket(rev, day)].checkedoutRevenue

\* C11 as stated: a successful /checkout raises checkedoutRevenue of today's bucket by the
\* sum of the itemTotal of the items it checked out, and no other day's checkedoutRevenue
C11_CheckoutAddsToToday ==
  [][(steps' = steps + 1 /\ lastOp'.op = "checkout" /\ lastOp'.code = 200)
     => \E i \in 1..Len(orders') :
          /\ CheckedOutOrder(lastOp'.user, i)
          /\ \A d \in 1..MaxDay :
               CheckedoutRevenueOf(revenue', d) =
                 CheckedoutRevenueOf(revenue, d)
                 + (IF d = today THEN SumItemTotals(orders'[i].items) ELSE 0)]_vars

\* C11 amended: a successful /checkout raises checkedoutRevenue of the bucket of the day
\* its order was created (today only when the checkout creates the order) by the sum of
\* the itemTotal of the items it checked out, and no other day's checkedoutRevenue
C11_CheckoutAddsToCreationDay ==
  [][(steps' = steps + 1 /\ lastOp'.op = "checkout" /\ lastOp'.code = 200)
     => \E i \in 1..Len(orders') :
          /\ CheckedOutOrder(lastOp'.user, i)
          /\ \A d \in 1..MaxDay :
               CheckedoutRevenueOf(revenue', d) =
                 CheckedoutRevenueOf(revenue, d)
                 + (IF d = orders'[i].createdDay
                    THEN SumItemTotals(orders'[i].items) ELSE 0)]_vars

\* a successful /checkout of a pending order opened on an earlier day, counted in that day
C11_Witness ==
  /\ lastOp.op = "checkout" /\ lastOp.code = 200
  /\ \E i \in 1..Len(orders) :
       /\ orders[i].userId = lastOp.user /\ orders[i].status = "pending"
       /\ orders[i].createdDay < today
       /\ Len(orders[i].items) > 0
       /\ CheckedoutRevenueOf(revenue, orders[i].createdDay) = SumItemTotals(orders[i].items)
       /\ CheckedoutRevenueOf(revenue, today) = 0

\* the bucket of a day, a zeroed one while the day has none
BucketOf(rev, day) ==
  IF FindBucket(rev, day) = 0 THEN ZeroBucket(day) ELSE rev[FindBucket(rev, day)]

\* a well-formed /addtocart with a positive delta by a user with an empty cart and no
\* pending order, judged on the request and the state before it
FirstAdd(op) ==
  /\ op.op = "addtocart" /\ ~op.bad /\ op.qty > 0
  /\ op.pid \in DOMAIN catalog /\ catalog[op.pid].present
  /\ op.size \in catalog[op.pid].sizes
  /\ op.arg \in {"cash", "online"} \cup PaymentMethods
  /\ cart[op.user] = EmptyMap
  /\ PendingOrders(op.user) = {}

\* C12: /addtocart with a valid size and delta q > 0 for a product of price p, by a user
\* with an empty cart and no pending order, makes the cart {product: {size: q}}, creates
\* exactly one order, pending, with a single 'in_cart' item of quantity q, itemTotal p*q
\* and total p*q, and adds 1 to ordersCount and p*q to pendingRevenue of the day's
\* bucket, leaving its other counters and the other buckets unchanged
C12_FirstAddCreatesOrder ==
  [][(steps' = steps + 1 /\ FirstAdd(lastOp'))
     => LET op == lastOp'
            pq == catalog[op.pid].new_price * op.qty
            b == BucketOf(revenue, today)
        IN /\ cart'[op.user] = MapPut(EmptyMap, op.pid, <<[size |-> op.size, qty |-> op.qty]>>)
           /\ Len(orders') = Len(orders) + 1
           /\ SubSeq(orders', 1, Len(orders)) = orders
           /\ LET o == orders'[Len(orders')]
              IN /\ o.userId = op.user /\ o.status = "pending"
                 /\ o.items = <<NewItem(op.pid, op.size, op.qty, catalog[op.pid].new_price, "in_cart")>>
                 /\ o.items[1].itemTotal = pq
                 /\ o.total = pq
           /\ BucketOf(revenue', today) =
                [b EXCEPT !.ordersCount = @ + 1, !.pendingRevenue = @ + pq]
           /\ \A d \in 1..MaxDay : d # today => BucketOf(revenue', d) = BucketOf(revenue, d)]_vars

\* the orders of user u that are pending after the step
PendingAfter(u) ==
  {i \in 1..Len(orders') : orders'[i].userId = u /\ orders'[i].status = "pending"}

\* the pending orders of user u that had items before the step and have none after it
EmptiedOrders(u) ==
  {i \in PendingOrders(u) : Len(orders[i].items) > 0 /\ Len(orders'[i].items) = 0}

\* C13: when /addtocart with a negative delta or /updatecartquantity removes the last
\* item of the user's pending order, the order becomes 'cancelled' with cancelledAt set
\* and reason 'All items removed from cart', and the user then has no pending order
C13_EmptiedOrderIsCancelled ==
  [][(/\ steps' = steps + 1
      /\ lastOp'.op \in {"addtocart", "updatecartquantity"}
      /\ Len(orders') = Len(orders))
     => \A i \in EmptiedOrders(lastOp'.user) :
          /\ orders'[i].status = "cancelled"
          /\ orders'[i].cancelledAt = today
          /\ orders'[i].cancellationReason = "All items removed from cart"
          /\ PendingAfter(lastOp'.user) = {}]_vars

C15_ClearCartCancelsPending ==
  [][(steps' = steps + 1 /\ lastOp'.op = "clearcart")
     => LET u == lastOp'.user
        IN /\ lastOp'.code = 200
           /\ cart'[u] = EmptyMap
           /\ Len(orders') = Len(orders)
           /\ \A i \in 1..Len(orders) :
                IF i \in PendingOrders(u)
                THEN /\ orders'[i].status = "cancelled"
                     /\ orders'[i].cancelledAt = today
                     /\ orders'[i].cancellationReason = "Cart cleared by user"
                ELSE orders'[i] = orders[i]
           /\ PendingAfter(u) = {}]_vars

\* the two requests are served one right after the other, for the same line of one user
SameLineTwice(first, second) ==
  /\ steps' = steps + 1
  /\ first.user = second.user /\ first.pid = second.pid /\ first.size = second.size

\* C16: when updateCartQuantity of the storefront or POST /updatecartquantity is called
\* twice in a row with the same product, size and quantity, the second call leaves the
\* cart, every order and every revenue bucket as the first call left them
C16_SetQuantityIdempotent ==
  [][(/\ SameLineTwice(lastOp, lastOp')
      /\ lastOp.op \in {"updateCartQuantity", "updatecartquantity"}
      /\ lastOp'.op = lastOp.op /\ lastOp'.qty = lastOp.qty
      /\ lastOp.code = 200 /\ lastOp'.code = 200)
     => (cart' = cart /\ orders' = orders /\ revenue' = revenue)]_vars

\* quantity of the item (pid, size) in the pending order of user u, 0 when it has none
ItemQty(ords, u, pid, size) ==
  LET oi == FindPendingOrder(ords, u)
  IN IF oi = 0 \/ FindItemIndex(ords[oi].items, pid, size) = 0 THEN 0
     ELSE ords[oi].items[FindItemIndex(ords[oi].items, pid, size)].quantity

\* C17: a successful add of +q to a line (POST /addtocart or the storefront's addToCart)
\* followed at once by removeFromCart of the same line returns cartData to its value
\* before the add and the order item of the line to its quantity before the add (absent
\* again if it was absent); the add raised the line and its item by q, so the removal
\* must lower both by q and leave every other line alone
C17_AddThenRemoveRoundTrip ==
  [][(/\ SameLineTwice(lastOp, lastOp')
      /\ lastOp.op \in {"addtocart", "addToCart"} /\ lastOp.code = 200 /\ lastOp.qty > 0
      /\ lastOp'.op = "removeFromCart")
     => LET u == lastOp.user
            pid == lastOp.pid
            size == lastOp.size
        IN /\ CartQty(cart'[u], pid, size) = CartQty(cart[u], pid, size) - lastOp.qty
           /\ \A l \in Lines : l # <<pid, size>> =>
                CartQty(cart'[u], l[1], l[2]) = CartQty(cart[u], l[1], l[2])
           /\ ItemQty(orders', u, pid, size) = ItemQty(orders, u, pid, size) - lastOp.qty]_vars

\* C19: removeFromCart on a line of any quantity k >= 1 leaves the line absent from the
\* cart and its item absent from the user's pending order, as /addtocart with the delta
\* -k would
C19_RemoveDeletesLine ==
  [][(/\ steps' = steps + 1
      /\ lastOp'.op = "removeFromCart"
      /\ CartQty(cart[lastOp'.user], lastOp'.pid, lastOp'.size) >= 1)
     => LET u == lastOp'.user
            k == CartQty(cart[u], lastOp'.pid, lastOp'.size)
            r == AddToCartHandler(cart[u], orders, revenue, nextId, catalog, today, u, TRUE,
                                  lastOp'.pid, lastOp'.size, -k, "cash_on_delivery", "none")
        IN /\ CartQty(cart'[u], lastOp'.pid, lastOp'.size) = 0
           /\ ItemQty(orders', u, lastOp'.pid, lastOp'.size) = 0
           /\ cart'[u] = r.cart /\ orders' = r.orders]_vars

\* C18: POST /updatecartquantity asking for the absolute quantity n of a line leaves the
\* same cartData, the same orders (a pending order is created when there is none) and
\* the same revenue buckets as POST /addtocart with the delta n - currentQty would
C18_EntryPointsAgree ==
  [][(/\ steps' = steps + 1
      /\ lastOp'.op = "updatecartquantity" /\ ~lastOp'.bad
      /\ lastOp'.qty >= 0
      /\ lastOp'.qty # CartQty(cart[lastOp'.user], lastOp'.pid, lastOp'.size))
     => LET u == lastOp'.user
            delta == lastOp'.qty - CartQty(cart[u], lastOp'.pid, lastOp'.size)
            r == AddToCartHandler(cart[u], orders, revenue, nextId, catalog, today, u, TRUE,
                                  lastOp'.pid, lastOp'.size, delta, "cash_on_delivery", "none")
        IN cart'[u] = r.cart /\ orders' = r.orders /\ revenue' = r.revenue]_vars

\* C20: in every reachable state every line stored in a user's cartData has a quantity of
\* at most 10, whatever /addtocart and /updatecartquantity requests and storefront
\* actions came before
C20_QuantityAtMostMax ==
  \A u \in Users : \A p \in DOMAIN cart[u] : \A k \in 1..Len(cart[u][p]) :
    cart[u][p][k].qty <= MaxQuantity

\* a cartData without a line of quantity <= 0 and without a product of no size
WellFormedCart(cd) ==
  \A p \in DOMAIN cd : Len(cd[p]) > 0 /\ \A k \in 1..Len(cd[p]) : cd[p][k].qty > 0

\* size maps a stored cartData may hold for one product, stale entries included
StoredSizeMaps ==
  {<<>>} \cup {<<[size |-> a, qty |-> q]>> : a \in Sizes, q \in {-1, 0, 2}}
  \cup {<<[size |-> "M", qty |-> q], [size |-> "L", qty |-> r]>> : q \in {-1, 0, 2}, r \in {-1, 0, 2}}

\* stored cartData values handed to the cleaning pass of GET /getcartdata
StoredCarts ==
  {EmptyMap} \cup {MapPut(EmptyMap, 1, a) : a \in StoredSizeMaps}
  \cup {MapPut(MapPut(EmptyMap, 1, a), 2, b) : a \in StoredSizeMaps, b \in StoredSizeMaps}

\* GET /getcartdata on any stored cartData: the answer holds exactly the lines of positive
\* quantity, the store is rewritten only if a stale entry was dropped, and a second read
\* finds nothing to rewrite
ReadCleans ==
  \A cd \in StoredCarts :
    /\ WellFormedCart(CleanCartData(cd))
    /\ \A l \in ProductIds \X Sizes :
         CartQty(CleanCartData(cd), l[1], l[2]) =
           (IF CartQty(cd, l[1], l[2]) > 0 THEN CartQty(cd, l[1], l[2]) ELSE 0)
    /\ (GetCartDataHandler(cd) # cd) = ~WellFormedCart(cd)
    /\ GetCartDataHandler(GetCartDataHandler(cd)) = GetCartDataHandler(cd)

\* C21: after any sequence of server cart operations no stored cartData has a line of
\* quantity <= 0 or a product with an empty size map; GET /getcartdata answers with the
\* lines of positive quantity only and writes back only when it dropped something, so a
\* second GET /getcartdata in a row writes nothing
C21_CartDataClean ==
  /\ \A u \in Users : WellFormedCart(cart[u])
  /\ ReadCleans
  /\ lastOp.op = "getcartdata" => GetCartDataHandler(cart[lastOp.user]) = cart[lastOp.user]

\* the cart of a user whose pending order holds one item has just been read
C21_Witness ==
  /\ lastOp.op = "getcartdata"
  /\ \E i \in 1..Len(orders) :
       /\ orders[i].userId = lastOp.user /\ orders[i].status = "pending"
       /\ Len(orders[i].items) = 1
       /\ Cardinality(CartLines(cart[lastOp.user])) = 1

\* C22: also when admin status changes (which accept 'pending' without a look at the
\* previous status) come between the cart operations, no user has two pending orders
C22_SinglePendingAcrossAdmin ==
  \A u \in Users : \A i \in PendingOrders(u) : \A j \in PendingOrders(u) : i = j

(***************************************************************************)
(* Interleaved requests.  The server takes no lock and opens no            *)
(* transaction: between two awaits of one /addtocart request the steps of  *)
(* another request run.  Each action below is the code of POST /addtocart  *)
(* (with createOrUpdateOrder and updateRevenue inlined) from one await to  *)
(* the next, for a request that passed validation.                         *)
(***************************************************************************)
MaxRequests == 1
RaceQuantities == {1, 2}
RaceLine == <<1, "M">>

\* the slots whose request is under way
Busy == {p \in Requests : inflight[p].pc # "idle"}

\* the request is answered: the slot is free again
Answer(p, code) ==
  [inflight EXCEPT ![p] = [Idle EXCEPT !.served = inflight[p].served + 1,
                                       !.user = inflight[p].user,
                                       !.code = code,
                                       !.added = IF code = 200
                                                 THEN [inflight[p].added EXCEPT
                                                         ![inflight[p].user] = @ + inflight[p].qty]
                                                 ELSE inflight[p].added]]

\* a validated request arrives
RaceBegin(p, u, quantity) ==
  /\ inflight[p].pc = "idle"
  /\ inflight[p].served < MaxRequests
  /\ ProductExists(catalog, RaceLine[1])
  /\ RaceLine[2] \in AvailableSizes(catalog, RaceLine[1])
  /\ inflight' = [inflight EXCEPT ![p] = [@ EXCEPT !.pc = "findUser", !.user = u,
                                                   !.pid = RaceLine[1], !.size = RaceLine[2],
                                                   !.qty = quantity, !.code = 0]]
  /\ UNCHANGED <<cart, orders, revenue, catalog, nextId, today, steps, lastOp, cartItems>>

\* await Users.findById, then the edit of the loaded cartData
RaceFindUser(p) ==
  LET r == inflight[p]
  IN /\ r.pc = "findUser"
     /\ inflight' = [inflight EXCEPT ![p] = [@ EXCEPT !.pc = "saveUser",
                       !.cd = AddToCartData(cart[r.user], r.pid, r.size, r.qty)]]
     /\ UNCHANGED <<cart, orders, revenue, catalog, nextId, today, steps, lastOp, cartItems>>

\* user.markModified('cartData'); await user.save(): the whole cartData is written
RaceSaveUser(p) ==
  LET r == inflight[p]
  IN /\ r.pc = "saveUser"
     /\ cart' = [cart EXCEPT ![r.user] = r.cd]
     /\ inflight' = [inflight EXCEPT ![p] = [@ EXCEPT !.pc = "findOrder"]]
     /\ UNCHANGED <<orders, revenue, catalog, nextId, today, steps, lastOp, cartItems>>

\* await Order.findOne({ userId, status: 'pending' }), then the edit of the loaded order
RaceFindOrder(p) ==
  LET r == inflight[p]
      oi == FindPendingOrder(orders, r.user)
      price == PriceOf(catalog, r.pid)
  IN /\ r.pc = "findOrder"
     /\ IF oi = 0 /\ r.qty > 0
        THEN inflight' = [inflight EXCEPT ![p] = [@ EXCEPT !.pc = "countDocuments"]]
        ELSE IF oi > 0
        THEN LET o1 == Retotal(orders[oi], MergeItem(orders[oi].items, r.pid, r.size,
                                                      r.qty, price), today)
             IN inflight' = [inflight EXCEPT ![p] = [@ EXCEPT !.pc = "saveOrder", !.oi = oi,
                               !.read = orders[oi],
                               !.order = [o1 EXCEPT !.paymentMethod =
                                                      NormalizePaymentMethod("cash")]]]
        ELSE inflight' = Answer(p, 200)
     /\ UNCHANGED <<cart, orders, revenue, catalog, nextId, today, steps, lastOp, cartItems>>

\* await Order.countDocuments(), then new Order({ orderId, ... })
RaceCountDocuments(p) ==
  LET r == inflight[p]
      price == PriceOf(catalog, r.pid)
  IN /\ r.pc = "countDocuments"
     /\ inflight' = [inflight EXCEPT ![p] = [@ EXCEPT !.pc = "insertOrder",
                       !.order = NewOrder(0, GenerateOrderId(orders), r.user,
                                          <<NewItem(r.pid, r.size, Abs(r.qty), price, "in_cart")>>,
                                          price * Abs(r.qty), NormalizePaymentMethod("cash"),
                                          today)]]
     /\ UNCHANGED <<cart, orders, revenue, catalog, nextId, today, steps, lastOp, cartItems>>

\* await order.save() of the new order; a taken orderId is rejected by the unique index
\* and the request ends with status 500
RaceInsertOrder(p) ==
  LET r == inflight[p]
      order == [r.order EXCEPT !.id = nextId]
  IN /\ r.pc = "insertOrder"
     /\ IF SaveAccepts(orders, order)
        THEN /\ orders' = Append(orders, order)
             /\ nextId' = nextId + 1
             /\ inflight' = [inflight EXCEPT ![p] = [@ EXCEPT !.pc = "findRevenue",
                               !.order = order, !.action = "add"]]
        ELSE /\ inflight' = Answer(p, 500)
             /\ UNCHANGED <<orders, nextId>>
     /\ UNCHANGED <<cart, revenue, catalog, today, steps, lastOp, cartItems>>

\* what order.save() can do with a loaded order that another request changed in the
\* store since it was read: write the loaded copy, append the pushed item to the stored
\* items, or reject the save on the document version
SaveOutcomes(r) ==
  {"write", "version"} \cup
  (IF Len(r.order.items) = Len(r.read.items) + 1 THEN {"push"} ELSE {})

\* await order.save() of the loaded order
RaceSaveOrder(p, outcome) ==
  LET r == inflight[p]
      stored == orders[r.oi]
      pushed == [r.order EXCEPT !.items = Append(stored.items,
                                                  r.order.items[Len(r.order.items)])]
  IN /\ r.pc = "saveOrder"
     /\ IF stored = r.read THEN outcome = "write" ELSE outcome \in SaveOutcomes(r)
     /\ IF outcome = "version"
        THEN /\ inflight' = Answer(p, 500)
             /\ UNCHANGED orders
        ELSE /\ orders' = ReplaceAt(orders, r.oi, IF outcome = "push" THEN pushed ELSE r.order)
             /\ inflight' = [inflight EXCEPT ![p] = [@ EXCEPT !.pc = "findRevenue",
                               !.action = "update"]]
     /\ UNCHANGED <<cart, revenue, catalog, nextId, today, steps, lastOp, cartItems>>

\* await Revenue.findOne({ date: dateKey }), new Revenue when there is none, then the
\* += on the loaded counters
RaceFindRevenue(p) ==
  LET r == inflight[p]
      bi == FindBucket(revenue, r.order.createdDay)
      loaded == IF bi = 0 THEN ZeroBucket(r.order.createdDay) ELSE revenue[bi]
  IN /\ r.pc = "findRevenue"
     /\ inflight' = [inflight EXCEPT ![p] = [@ EXCEPT !.pc = "saveRevenue", !.bi = bi,
                       !.loaded = loaded,
                       !.bucket = ApplyRevenue(loaded, r.order, r.action)]]
     /\ UNCHANGED <<cart, orders, revenue, catalog, nextId, today, steps, lastOp, cartItems>>

\* the counters of a loaded bucket that revenue.save() writes: those that changed
SaveModified(stored, loaded, bucket) ==
  [f \in DOMAIN stored |-> IF bucket[f] # loaded[f] THEN bucket[f] ELSE stored[f]]

\* await revenue.save(): a new bucket is inserted, a loaded one has its changed counters
\* set to the values computed from the load
RaceSaveRevenue(p) ==
  LET r == inflight[p]
  IN /\ r.pc = "saveRevenue"
     /\ revenue' = IF r.bi = 0 THEN Append(revenue, r.bucket)
                   ELSE ReplaceAt(revenue, r.bi,
                                  SaveModified(revenue[r.bi], r.loaded, r.bucket))
     /\ inflight' = Answer(p, 200)
     /\ UNCHANGED <<cart, orders, catalog, nextId, today, steps, lastOp, cartItems>>

\* one step of one request
RaceStep(p) ==
  \/ \E u \in Users, q \in RaceQuantities : RaceBegin(p, u, q)
  \/ RaceFindUser(p)
  \/ RaceSaveUser(p)
  \/ RaceFindOrder(p)
  \/ RaceCountDocuments(p)
  \/ RaceInsertOrder(p)
  \/ \E outcome \in {"write", "version", "push"} : RaceSaveOrder(p, outcome)
  \/ RaceFindRevenue(p)
  \/ RaceSaveRevenue(p)

\* two request slots over an empty store
NextRace == \E p \in Requests : RaceStep(p)

SpecRace == Init /\ [][NextRace]_vars

\* two request slots over a store with history
SpecRaceBusy == InitBusy /\ [][NextRace]_vars

\* the deltas that answered requests added for user u
RECURSIVE SumAdded(_, _)
SumAdded(ps, u) ==
  IF ps = {} THEN 0
  ELSE LET p == CHOOSE x \in ps : TRUE
       IN inflight[p].added[u] + SumAdded(ps \ {p}, u)

\* the quantity of the raced line over the pending orders of user u
RECURSIVE SumPendingQty(_, _)
SumPendingQty(is, u) ==
  IF is = {} THEN 0
  ELSE LET i == CHOOSE x \in is : TRUE
           k == FindItemIndex(orders[i].items, RaceLine[1], RaceLine[2])
       IN (IF k = 0 THEN 0 ELSE orders[i].items[k].quantity) + SumPendingQty(is \ {i}, u)

\* C23: interleaved /addtocart requests of one user leave at most one pending order,
\* and once every request is answered with success the cart and the pending order hold
\* the sum of the requests' deltas
C23_InterleavedRequestsSerialize ==
  \A u \in Users :
    /\ Cardinality(PendingOrders(u)) <= 1
    /\ (Busy = {} /\ \A p \in Requests : inflight[p].code \in {0, 200})
         => /\ CartQty(cart[u], RaceLine[1], RaceLine[2]) = SumAdded(Requests, u)
            /\ SumPendingQty(PendingOrders(u), u) = SumAdded(Requests, u)

\* slot p completes revenue.save() in this step
SavesRevenue(p) == inflight[p].pc = "saveRevenue" /\ inflight'[p].pc = "idle"

\* C24: while requests of different users interleave, every revenue.save() leaves the
\* ledger as if the call's increments were applied to the stored bucket (no increment
\* of another call is lost)
C24_RevenueIncrementsAtomic ==
  [][\A p \in Requests :
       (SavesRevenue(p) /\ \A q \in Requests \ {p} : inflight[q].user # inflight[p].user)
         => revenue' = UpdateRevenue(revenue, inflight[p].order, inflight[p].action, "none")]_vars

\* C25: the ledger holds at most one bucket per calendar day
C25_OneBucketPerDay ==
  \A i \in 1..Len(revenue) : \A j \in 1..Len(revenue) :
    revenue[i].day = revenue[j].day => i = j

\* the requests that act on the cart
CartOps == {"addtocart", "updatecartquantity", "clearcart", "checkout", "createorder"}

\* C26: a cart request leaves every order that is not pending exactly as it was
C26_SettledOrdersUntouched ==
  [][lastOp'.op \in CartOps /\ steps' = steps + 1
       => /\ Len(orders') >= Len(orders)
          /\ \A i \in 1..Len(orders) :
               orders[i].status # "pending" => orders'[i] = orders[i]]_vars

\* a cart request of a user with a settled order has opened a new pending order
C26_Witness ==
  /\ lastOp.op \in CartOps
  /\ lastOp.code = 200
  /\ \E i \in 1..Len(orders) : \E j \in 1..Len(orders) :
       /\ orders[i].userId = lastOp.user /\ orders[i].status # "pending"
       /\ orders[i].status # "cancelled" /\ Len(orders[i].items) > 0
       /\ orders[j].userId = lastOp.user /\ orders[j].status = "pending" /\ i < j

\* C27: the orderId that the next order creation generates is carried by no stored order
C27_GeneratedOrderIdFresh ==
  \A i \in 1..Len(orders) : orders[i].orderId # GenerateOrderId(orders)

(***************************************************************************)
(* The shop context's own copy of the cart.  cartItems is the React state  *)
(* of the browser of user u1; all_product is the product list the page     *)
(* loaded, which later catalog changes on the server do not reach.         *)
(***************************************************************************)
AllProduct == InitialCatalog

\* normalizeCartData(cartData, products): an empty size map for every listed product,
\* then the positive entries of cartData
NormalizeCartData(cartData, products) ==
  LET filled == {k \in DOMAIN cartData : Len(CleanSizes(cartData[k])) > 0}
  IN [k \in {p \in DOMAIN products : products[p].present} \cup filled |->
        IF k \in filled THEN CleanSizes(cartData[k]) ELSE <<>>]

\* cartItems[productIdToSend]?.[size] || 0
ItemsQty(items, key, size) == CartQty(items, key, size)

\* the optimistic update of addToCart
OptimisticAdd(items, key, size) ==
  LET i1 == IF key \in DOMAIN items THEN items ELSE MapPut(items, key, <<>>)
  IN MapPut(i1, key, SizePut(i1[key], size, ItemsQty(i1, key, size) + 1))

\* the undo of addToCart, in the rejection branch and in the catch block
RollbackAdd(items, key, size) ==
  IF key \in DOMAIN items /\ ItemsQty(items, key, size) # 0
  THEN LET q == ItemsQty(items, key, size) - 1
           s1 == SizePut(items[key], size, q)
           s2 == IF q <= 0 THEN SizeDel(s1, size) ELSE s1
       IN IF Len(s2) = 0 THEN MapDel(items, key) ELSE MapPut(items, key, s2)
  ELSE items

\* the optimistic update of updateCartQuantity
OptimisticUpdate(items, key, size, newQuantity) ==
  LET i1 == IF key \in DOMAIN items THEN items ELSE MapPut(items, key, <<>>)
  IN IF newQuantity <= 0
     THEN LET s1 == SizeDel(i1[key], size)
          IN IF Len(s1) = 0 THEN MapDel(i1, key) ELSE MapPut(i1, key, s1)
     ELSE MapPut(i1, key, SizePut(i1[key], size, newQuantity))

\* the undo of updateCartQuantity, in the rejection branch and in the catch block
RollbackUpdate(items, key, size, currentQuantity) ==
  IF key \in DOMAIN items
  THEN MapPut(items, key, SizePut(items[key], size, currentQuantity))
  ELSE items

\* the server's part of a shop call, and the call's effect on cartItems
ShopCommit(u, r, items, op) ==
  /\ steps < MaxSteps
  /\ cart' = [cart EXCEPT ![u] = r.cart]
  /\ orders' = r.orders
  /\ revenue' = r.revenue
  /\ nextId' = r.nextId
  /\ cartItems' = items
  /\ steps' = steps + 1
  /\ lastOp' = op
  /\ UNCHANGED <<catalog, today, inflight>>

\* syncCartWithServer(): GET /getcartdata, then normalizeCartData
ShopSyncCart(u) ==
  LET cd == GetCartDataHandler(cart[u])
  IN ShopCommit(u, Response(cd, orders, revenue, nextId, 200),
                NormalizeCartData(cd, AllProduct),
                Op("syncCartWithServer", u, 200, 0, "", 0, "", 0, FALSE, "none"))

\* addToCart(itemId, selectedSize), called with product.id as the product pages do;
\* failure "network": fetch rejects and the request does not reach the server
ShopAddToCart(u, pid, selectedSize, failure) ==
  LET same == Response(cart[u], orders, revenue, nextId, 0)
      optimistic == OptimisticAdd(cartItems, pid, selectedSize)
      r == AddToCartHandler(cart[u], orders, revenue, nextId, catalog, today, u, TRUE, pid,
                            selectedSize, 1, "cash", "none")
  IN IF selectedSize \in {"", "default"} \/ ~ProductExists(AllProduct, pid)
     THEN ShopCommit(u, same, cartItems,
                     Op("addToCart", u, 0, pid, selectedSize, 1, "cash", 0, FALSE, "none"))
     ELSE IF failure = "network"
     THEN ShopCommit(u, same, RollbackAdd(optimistic, pid, selectedSize),
                     Op("addToCart", u, 0, pid, selectedSize, 1, "cash", 0, FALSE, "network"))
     ELSE ShopCommit(u, r,
                     IF r.code = 200 THEN NormalizeCartData(r.cart, AllProduct)
                     ELSE RollbackAdd(optimistic, pid, selectedSize),
                     Op("addToCart", u, r.code, pid, selectedSize, 1, "cash", 0, FALSE, "none"))

\* updateCartQuantity(itemId, size, newQuantity)
ShopUpdateCartQuantity(u, pid, size, newQuantity, failure) ==
  LET same == Response(cart[u], orders, revenue, nextId, 0)
      currentQuantity == ItemsQty(cartItems, pid, size)
      difference == newQuantity - currentQuantity
      optimistic == OptimisticUpdate(cartItems, pid, size, newQuantity)
      r == AddToCartHandler(cart[u], orders, revenue, nextId, catalog, today, u, TRUE, pid,
                            size, difference, "cash", "none")
  IN IF ~ProductExists(AllProduct, pid) \/ difference = 0
     THEN ShopCommit(u, same, cartItems,
                     Op("updateCartQuantity", u, 0, pid, size, newQuantity, "cash", 0, FALSE,
                        "none"))
     ELSE IF failure = "network"
     THEN ShopCommit(u, same, RollbackUpdate(optimistic, pid, size, currentQuantity),
                     Op("updateCartQuantity", u, 0, pid, size, newQuantity, "cash", 0, FALSE,
                        "network"))
     ELSE ShopCommit(u, r,
                     IF r.code = 200 THEN NormalizeCartData(r.cart, AllProduct)
                     ELSE RollbackUpdate(optimistic, pid, size, currentQuantity),
                     Op("updateCartQuantity", u, r.code, pid, size, newQuantity, "cash", 0,
                        FALSE, "none"))

Failures == {"none", "network"}

\* one browser and the admin's catalog
NextShop ==
  \/ ShopSyncCart("u1")
  \/ \E l \in Lines, f \in Failures : ShopAddToCart("u1", l[1], l[2], f)
  \/ \E l \in Lines, n \in TargetQuantities, f \in Failures :
       ShopUpdateCartQuantity("u1", l[1], l[2], n, f)
  \/ \E p \in ProductIds : RemoveProduct(p)

SpecShop == Init /\ [][NextShop]_vars

\* the (product, size, quantity) entries of cartItems
ItemEntries(items) ==
  {<<p, items[p][k].size, items[p][k].qty>> : <<p, k>> \in
     {e \in (DOMAIN items) \X (1..2) : e[2] <= Len(items[e[1]])}}

\* the call of this step sent its request (or tried to) and did not succeed
FailedCall ==
  /\ lastOp'.op \in {"addToCart", "updateCartQuantity"}
  /\ steps' = steps + 1
  /\ lastOp'.fault = "network" \/ lastOp'.code \notin {0, 200}

\* C28: a failed addToCart or updateCartQuantity leaves cartItems with the entries it
\* had before the call
C28_RollbackRestoresCartItems ==
  [][FailedCall => ItemEntries(cartItems') = ItemEntries(cartItems)]_vars

\* order o holds item it with its quantity and itemTotal
KeepsItem(o, it) ==
  \E m \in 1..Len(o.items) :
    /\ o.items[m].productId = it.productId
    /\ o.items[m].size = it.size
    /\ o.items[m].quantity = it.quantity
    /\ o.items[m].itemTotal = it.itemTotal

\* C29: a cart request leaves every checked-out item in its order with the quantity and
\* itemTotal it had
C29_CheckedOutItemsFrozen ==
  [][lastOp'.op \in CartOps /\ steps' = steps + 1
       => \A i \in 1..Len(orders) : \A k \in 1..Len(orders[i].items) :
            orders[i].items[k].status = "checkedout"
              => \E j \in 1..Len(orders') :
                   orders'[j].id = orders[i].id /\ KeepsItem(orders'[j], orders[i].items[k])]_vars

\* C30: every pending order holds at least one item
C30_PendingOrderHasItems ==
  \A i \in 1..Len(orders) : orders[i].status = "pending" => Len(orders[i].items) > 0

====
